---- MODULE Spec2Model ----
(***************************************************************************)
(* Model of src/app.py: one run of selenium_boost_worker, the browser      *)
(* automation worker behind POST /boost.  The worker is a sequential flow  *)
(* of driver calls; every driver call either returns or raises, and the    *)
(* values the page returns (heights, selector counts, button texts,        *)
(* classes, address lookups) are chosen by the page, not by the worker.    *)
(*                                                                         *)
(* Log entries are records [tag, arg]: the tag names the f-string of the   *)
(* source line, arg carries the one interpolated value a property reads.   *)
(***************************************************************************)
EXTENDS Integers, Sequences, FiniteSets, TLC

VARIABLES
    pc,                \* position of the worker in selenium_boost_worker
    num_buttons,       \* argument num_buttons
    chrome_bin,        \* result of find_chrome_binary()
    chromedriver_bin,  \* result of find_chromedriver_binary()
    driver,            \* local driver: NoneVal or the session handle
    logs,              \* local logs
    step,              \* index of the next login step
    loops,             \* local loops of the scroll loop
    last_height,       \* local last_height of the scroll loop
    new_height,        \* local new_height of the scroll loop
    elapsed,           \* time.time() - start in the polling loop
    found_context,     \* local found_context
    found_count,       \* local found_count
    nbuttons,          \* len(buttons)
    idx,               \* enumerate index of the classification loop
    boostable,         \* local boostable: sequence of (address, btn, norm)
    seen,              \* history: what the page answered for the button inspected last
    to_click,          \* local to_click
    i,                 \* loop variable of the click loop
    clicked,           \* local clicked
    clicked_addresses, \* local clicked_addresses
    screenshot_b64,    \* local screenshot_b64
    exc,               \* the exception being handled, NoneVal if none
    report,            \* the BoostResponse returned, NoneVal before
    sessionAttempts,   \* history: calls of webdriver.Chrome(...)
    quitCalls,         \* history: calls of driver.quit()
    lookups,           \* what the four lookups of one address resolution yield
    runs,              \* concurrent runs: position, local driver, page outcomes, report
    created,           \* sessions webdriver.Chrome has handed out
    drove,             \* history: <<run, session>> pairs of driver calls made
    released,          \* history: <<run, session>> pairs of driver.quit() calls
    attempts,          \* history: click attempts, in order
    reports,           \* history: number of BoostResponse values returned
    escaped            \* history: an exception left the worker

vars == <<pc, num_buttons, chrome_bin, chromedriver_bin, driver, logs, step,
          loops, last_height, new_height, elapsed, found_context, found_count, nbuttons, seen,
          idx, boostable, to_click, i, clicked, clicked_addresses,
          screenshot_b64, exc, report, sessionAttempts, quitCalls, attempts,
          reports, escaped, lookups, runs, created, drove, released>>

(***************************************************************************)
(* Bounds of the model.                                                    *)
(***************************************************************************)
MaxRequested == 3   \* num_buttons ranges over 1..MaxRequested
MaxButtons   == 3   \* the page shows at most MaxButtons boost buttons
ScriptSeconds == 14 \* seconds the three count scripts of one poll take
MaxHeight    == 2   \* document.body.scrollHeight ranges over 0..MaxHeight
NumRuns      == 2   \* runs of the worker executing concurrently

(***************************************************************************)
(* Program constants.                                                      *)
(***************************************************************************)
DEFAULT_MAX_SCROLL_LOOPS == 60
DEFAULT_JS_POLL_INTERVAL == 1
DEFAULT_JS_POLL_TIMEOUT  == 45

NoneVal == "None"

Min(a, b) == IF a <= b THEN a ELSE b
Max(a, b) == IF a >= b THEN a ELSE b

L(tag, arg) == [tag |-> tag, arg |-> arg]

OrNone(v, alt) == IF v = NoneVal THEN alt ELSE v


(***************************************************************************)
(* Strings.  The page's texts and class attributes are drawn from small    *)
(* sets; lower(), whitespace normalisation and the substring test are      *)
(* tabulated on them.                                                      *)
(***************************************************************************)
RawTexts == {"", "Boost", "BOOST", "Boost  In Progress", "Renew"}

ClassAttrs == {NoneVal,
               "cmn--btn usage-boost-button",
               "cmn--btn usage-boost-button usage-boost-inprogress",
               "cmn--btn Usage-Boost-InProgress"}

Addrs == {"12 Elm St", "9 Oak Ave"}

\* str.lower()
Lower(s) ==
    CASE s = "Boost"             -> "boost"
      [] s = "BOOST"             -> "boost"
      [] s = "Boost  In Progress" -> "boost  in progress"
      [] s = "Renew"             -> "renew"
      [] s = "cmn--btn Usage-Boost-InProgress" -> "cmn--btn usage-boost-inprogress"
      [] OTHER                   -> s

\* " ".join(s.split())
Norm(s) == IF s = "boost  in progress" THEN "boost in progress" ELSE s

\* sub in s
Contains(s, sub) ==
    CASE sub = "boost"    -> s \in {"boost", "boost in progress"}
      [] sub = "progress" -> s \in {"boost in progress"}
      [] sub = "inprogress" -> FALSE
      [] sub = "usage-boost-inprogress" ->
             s \in {"cmn--btn usage-boost-button usage-boost-inprogress",
                    "cmn--btn usage-boost-inprogress"}
      [] OTHER -> FALSE

(***************************************************************************)
(* Helper functions of the worker.                                         *)
(***************************************************************************)
\* get_element_text_via_js: the script's result stripped, "" when the
\* script raises or returns nothing.
GetElementTextViaJs(r) == IF r \in {"raise", NoneVal} THEN "" ELSE r

\* What one lookup of the fallback chain can do: raise while locating the
\* ancestor or the address element, or yield the (possibly empty) text.
LookupResults == {"raise", ""} \cup Addrs

\* One link of the chain: the address if the lookup yields a non-empty text.
ChainLink(r) == IF r = "raise" THEN "" ELSE GetElementTextViaJs(r)

\* a chain that tries the preceding address before the ancestors
FindAddressPrecedingFirst(r1, r2, r3, r4) ==
    IF ChainLink(r4) # "" THEN ChainLink(r4)
    ELSE IF ChainLink(r1) # "" THEN ChainLink(r1)
    ELSE IF ChainLink(r2) # "" THEN ChainLink(r2)
    ELSE IF ChainLink(r3) # "" THEN ChainLink(r3)
    ELSE NoneVal

\* find_address_for_button: listing--card ancestor, listing--item ancestor,
\* listing--property--wrapper ancestor, preceding address; first non-empty
\* text wins, None otherwise.
FindAddressForButton(r1, r2, r3, r4) ==
    IF ChainLink(r1) # "" THEN ChainLink(r1)
    ELSE IF ChainLink(r2) # "" THEN ChainLink(r2)
    ELSE IF ChainLink(r3) # "" THEN ChainLink(r3)
    ELSE IF ChainLink(r4) # "" THEN ChainLink(r4)
    ELSE NoneVal

\* an in_progress that looks at the text only
InProgressTextOnly(classes, norm) ==
    \/ Contains(norm, "progress")
    \/ Contains(norm, "inprogress")

\* in_progress of the classification loop
InProgress(classes, norm) ==
    \/ Contains(classes, "usage-boost-inprogress")
    \/ Contains(norm, "progress")
    \/ Contains(norm, "inprogress")

\* the test that puts a button into boostable
IsBoostable(classes, norm) == Contains(norm, "boost") /\ ~InProgress(classes, norm)

\* to_click = min(num_buttons, len(boostable))
ToClickAll(n, b) == b
ToClick(n, b) == Min(n, b)

\* the element the i-th iteration (i from 0) of the click loop works on
TargetReversed(bs, k) == bs[Len(bs) - k]
Target(bs, k) == bs[k + 1]

\* clicked_addresses after one attempt
AddressesAlways(addrs, address, ok) == Append(addrs, address)
AddressesPrepend(addrs, address, ok) == IF ok THEN <<address>> \o addrs ELSE addrs
AddressesAfter(addrs, address, ok) == IF ok THEN Append(addrs, address) ELSE addrs

\* while loops < DEFAULT_MAX_SCROLL_LOOPS
ScrollCapOffByOne(n) == n <= DEFAULT_MAX_SCROLL_LOOPS
ScrollMayContinue(n) == n < DEFAULT_MAX_SCROLL_LOOPS

\* if new_height == last_height: break
HeightNotGrown(new, last) == new <= last
HeightUnchanged(new, last) == new = last

\* if not chromedriver_bin
NoPreconditionCheck(cd) == FALSE
MissingDriverBinary(cd) == cd = NoneVal

\* if not found_context
PollNeverFails(fc) == FALSE
PollFailed(fc) == fc = NoneVal

\* if not boostable
EmptyIsFine(bs) == FALSE
NoneBoostable(bs) == Len(bs) = 0

\* if driver (in the handler and in finally)
HasDriver(d) == d # NoneVal

\* the two entries the handler appends first
FailureLogMessageOnly(lg, e) == Append(lg, L("Unhandled exception", e))
FailureLog(lg, e) == lg \o <<L("Unhandled exception", e), L("traceback", e)>>

\* BoostResponse(...): pydantic validates debug_logs and clicked_addresses
\* into lists of its own, so the report holds the log as of its construction
BoostResponse(success, count, addrs, lg, err, shot) ==
    [success |-> success, clicked_count |-> count, clicked_addresses |-> addrs,
     debug_logs |-> lg, error |-> err, screenshot_base64 |-> shot]

NoReport == BoostResponse(FALSE, 0, <<>>, <<>>, NoneVal, NoneVal)


(***************************************************************************)
(* The worker.                                                             *)
(***************************************************************************)
scrollVars == <<loops, last_height, new_height>>
pollVars   == <<elapsed, found_context, found_count>>
classVars  == <<nbuttons, idx, boostable, seen>>

\* no button is under inspection
NotSeen == [btn |-> 0, text |-> "", class |-> ""]
clickVars  == <<to_click, i, clicked, clicked_addresses, attempts>>
endVars    == <<report, reports, quitCalls, escaped>>
sideVars   == <<lookups, runs, created, drove, released>>

LoginSteps == <<"open", "signin", "email", "submit1", "password", "submit2", "dashboard">>

LoginLog == <<"Opened affordablehousing.com", "Clicked homepage Sign In",
              "Entered email", "Clicked first Sign In button", "Entered password",
              "Clicked final Sign In button", "Login confirmed (dashboard)">>

LoginError == <<"open failed", "signin wait failed", "email wait failed",
                "submit1 wait failed", "password wait failed",
                "submit2 wait failed", "dashboard wait timed out">>

\* the worker's locals on entry
Locals ==
    /\ chrome_bin = NoneVal
    /\ chromedriver_bin = NoneVal
    /\ driver = NoneVal
    /\ logs = <<>>
    /\ step = 1
    /\ loops = 0
    /\ last_height = 0
    /\ new_height = 0
    /\ elapsed = 0
    /\ found_context = NoneVal
    /\ found_count = 0
    /\ nbuttons = 0
    /\ idx = 1
    /\ boostable = <<>>
    /\ seen = NotSeen
    /\ to_click = 0
    /\ i = 0
    /\ clicked = 0
    /\ clicked_addresses = <<>>
    /\ screenshot_b64 = NoneVal
    /\ exc = NoneVal
    /\ report = NoReport
    /\ sessionAttempts = 0
    /\ quitCalls = 0
    /\ attempts = <<>>
    /\ reports = 0
    /\ escaped = FALSE

Init ==
    /\ pc = "start"
    /\ num_buttons \in 1..MaxRequested
    /\ Locals
    /\ lookups = <<>>
    /\ runs = <<>>
    /\ created = {}
    /\ drove = {}
    /\ released = {}

\* raise inside the try block: control goes to the except clause
Raise(msg) ==
    /\ pc' = "except"
    /\ exc' = msg

\* lines 189-198: locate the binaries, log them, require chromedriver
Start ==
    /\ pc = "start"
    /\ \E cb \in {NoneVal, "/usr/bin/chromium"},
          cd \in {NoneVal, "/usr/bin/chromedriver"} :
        /\ chrome_bin' = cb
        /\ chromedriver_bin' = cd
        /\ logs' = logs \o <<L("Starting Selenium worker", ""),
                             L("Detected chrome binary", OrNone(cb, "<none>")),
                             L("Detected chromedriver binary", OrNone(cd, "<none>"))>>
        /\ IF MissingDriverBinary(cd)
           THEN Raise("Chromedriver binary not found")
           ELSE pc' = "create_driver" /\ exc' = exc
    /\ UNCHANGED <<sideVars, num_buttons, driver, step, scrollVars, pollVars, classVars,
                   clickVars, endVars, screenshot_b64, sessionAttempts>>

\* lines 200-215: build the options and start the browser session
CreateDriver ==
    /\ pc = "create_driver"
    /\ sessionAttempts' = sessionAttempts + 1
    /\ \E ok \in BOOLEAN :
        IF ok
        THEN /\ driver' = "session"
             /\ pc' = "login"
             /\ exc' = exc
        ELSE /\ driver' = driver
             /\ Raise("session not created")
    /\ UNCHANGED <<sideVars, num_buttons, chrome_bin, chromedriver_bin, logs, step,
                   scrollVars, pollVars, classVars, clickVars, endVars,
                   screenshot_b64>>

\* a login sequence that ignores a failed step and goes on with the next
LoginStepSwallows ==
    /\ pc = "login"
    /\ \E ok \in BOOLEAN :
        /\ logs' = IF ok THEN Append(logs, L(LoginLog[step], "")) ELSE logs
        /\ exc' = exc
        /\ IF step = Len(LoginSteps)
           THEN pc' = "navigate" /\ step' = step
           ELSE pc' = pc /\ step' = step + 1
    /\ UNCHANGED <<sideVars, num_buttons, chrome_bin, chromedriver_bin, driver,
                   scrollVars, pollVars, classVars, clickVars, endVars,
                   screenshot_b64, sessionAttempts>>

\* lines 217-243: the login steps, one driver wait or call each
LoginStep ==
    /\ pc = "login"
    /\ \E ok \in BOOLEAN :
        IF ok
        THEN /\ logs' = Append(logs, L(LoginLog[step], ""))
             /\ exc' = exc
             /\ IF step = Len(LoginSteps)
                THEN pc' = "navigate" /\ step' = step
                ELSE pc' = pc /\ step' = step + 1
        ELSE /\ Raise(LoginError[step])
             /\ UNCHANGED <<logs, step>>
    /\ UNCHANGED <<sideVars, num_buttons, chrome_bin, chromedriver_bin, driver,
                   scrollVars, pollVars, classVars, clickVars, endVars,
                   screenshot_b64, sessionAttempts>>

\* lines 245-252: open the listing page and read the first height
Navigate ==
    /\ pc = "navigate"
    /\ \E ok \in {"ok", "get raises", "script raises"}, h \in 0..MaxHeight :
        CASE ok = "ok" ->
               /\ logs' = Append(logs, L("Navigated to", "Listing.aspx"))
               /\ last_height' = h
               /\ pc' = "scroll"
               /\ exc' = exc
          [] ok = "get raises" ->
               /\ Raise("navigation failed")
               /\ UNCHANGED <<logs, last_height>>
          [] ok = "script raises" ->
               /\ logs' = Append(logs, L("Navigated to", "Listing.aspx"))
               /\ Raise("script failed")
               /\ UNCHANGED last_height
    /\ UNCHANGED <<sideVars, num_buttons, chrome_bin, chromedriver_bin, driver, step, loops,
                   new_height, pollVars, classVars, clickVars, endVars,
                   screenshot_b64, sessionAttempts>>

\* lines 253-261: one iteration of the scroll loop
ScrollIter ==
    /\ pc = "scroll"
    /\ ScrollMayContinue(loops)
    /\ \E ok \in {"ok", "scroll raises", "height raises"}, h \in 0..MaxHeight :
        CASE ok = "ok" ->
               /\ loops' = loops + 1
               /\ new_height' = h
               /\ exc' = exc
               /\ IF HeightUnchanged(h, last_height)
                  THEN pc' = "scroll_done" /\ last_height' = last_height
                  ELSE pc' = pc /\ last_height' = h
          [] ok = "scroll raises" ->
               /\ Raise("script failed")
               /\ UNCHANGED <<loops, last_height, new_height>>
          [] ok = "height raises" ->
               /\ loops' = loops + 1
               /\ Raise("script failed")
               /\ UNCHANGED <<last_height, new_height>>
    /\ UNCHANGED <<sideVars, num_buttons, chrome_bin, chromedriver_bin, driver, logs, step,
                   pollVars, classVars, clickVars, endVars, screenshot_b64,
                   sessionAttempts>>

\* line 253: the loop condition fails at the iteration cap
ScrollCap ==
    /\ pc = "scroll"
    /\ ~ScrollMayContinue(loops)
    /\ pc' = "scroll_done"
    /\ UNCHANGED <<sideVars, num_buttons, chrome_bin, chromedriver_bin, driver, logs, step,
                   scrollVars, pollVars, classVars, clickVars, endVars,
                   screenshot_b64, exc, sessionAttempts>>

\* lines 262-267: log the end of scrolling, start the poll clock.  loops,
\* last_height and new_height are not read after line 262; the model forgets
\* them here.
ScrollDone ==
    /\ pc = "scroll_done"
    /\ logs' = Append(logs, L("Finished incremental scrolling", ""))
    /\ loops' = 0
    /\ last_height' = 0
    /\ new_height' = 0
    /\ elapsed' = 0
    /\ found_context' = NoneVal
    /\ found_count' = 0
    /\ pc' = "poll"
    /\ UNCHANGED <<sideVars, num_buttons, chrome_bin, chromedriver_bin, driver, step,
                   classVars, clickVars, endVars, screenshot_b64, exc,
                   sessionAttempts>>


\* what a count script can return: nothing matches, or something does
Counts == {0, 1}

\* lines 268-280: one iteration of the polling loop; the three counts are
\* what the page holds at that moment.  An iteration that finds nothing
\* lasts the time of its scripts plus the sleep.
PollIter ==
    /\ pc = "poll"
    /\ elapsed < DEFAULT_JS_POLL_TIMEOUT
    /\ \E ok \in BOOLEAN, c_buttons \in Counts, c_cards \in Counts,
          c_addresses \in Counts :
        IF ok
        THEN /\ logs' = Append(logs, L("[JS POLL]", ""))
             /\ exc' = exc
             /\ IF c_buttons > 0 \/ c_cards > 0 \/ c_addresses > 0
                THEN /\ found_context' = "main"
                     /\ found_count' = Max(c_buttons, Max(c_cards, c_addresses))
                     /\ elapsed' = elapsed
                     /\ pc' = "poll_result"
                ELSE /\ elapsed' = elapsed + ScriptSeconds + DEFAULT_JS_POLL_INTERVAL
                     /\ pc' = pc
                     /\ UNCHANGED <<found_context, found_count>>
        ELSE /\ Raise("script failed")
             /\ UNCHANGED <<logs, pollVars>>
    /\ UNCHANGED <<sideVars, num_buttons, chrome_bin, chromedriver_bin, driver, step,
                   scrollVars, classVars, clickVars, endVars, screenshot_b64,
                   sessionAttempts>>

\* line 268: the loop condition fails once the timeout has passed
PollTimeout ==
    /\ pc = "poll"
    /\ ~(elapsed < DEFAULT_JS_POLL_TIMEOUT)
    /\ pc' = "poll_result"
    /\ UNCHANGED <<sideVars, num_buttons, chrome_bin, chromedriver_bin, driver, logs, step,
                   scrollVars, pollVars, classVars, clickVars, endVars,
                   screenshot_b64, exc, sessionAttempts>>

\* lines 282-289: log the result; nothing found is fatal, after a screenshot
PollResult ==
    /\ pc = "poll_result"
    /\ IF PollFailed(found_context)
       THEN /\ \E shot_ok \in BOOLEAN :
                IF shot_ok
                THEN /\ screenshot_b64' = "png@poll"
                     /\ logs' = logs \o <<L("[JS POLL RESULT]", found_context),
                                          L("No cards/buttons found - saved screenshot (base64)", "")>>
                ELSE /\ screenshot_b64' = screenshot_b64
                     /\ logs' = logs \o <<L("[JS POLL RESULT]", found_context),
                                          L("No cards/buttons found - screenshot failed", "")>>
            /\ Raise("No listing cards or buttons found after JS polling")
       ELSE /\ logs' = Append(logs, L("[JS POLL RESULT]", found_context))
            /\ pc' = "collect"
            /\ UNCHANGED <<screenshot_b64, exc>>
    /\ UNCHANGED <<sideVars, num_buttons, chrome_bin, chromedriver_bin, driver, step,
                   scrollVars, pollVars, classVars, clickVars, endVars,
                   sessionAttempts>>

\* lines 292-296: collect the button elements
Collect ==
    /\ pc = "collect"
    /\ \E ok \in BOOLEAN, n \in 0..MaxButtons :
        IF ok
        THEN /\ nbuttons' = n
             /\ idx' = 1
             /\ boostable' = <<>>
             /\ seen' = seen
             /\ logs' = Append(logs, L("Collected button elements", ToString(n)))
             /\ pc' = "classify"
             /\ exc' = exc
        ELSE /\ Raise("find_elements failed")
             /\ UNCHANGED <<logs, classVars>>
    /\ UNCHANGED <<sideVars, num_buttons, chrome_bin, chromedriver_bin, driver, step,
                   scrollVars, pollVars, clickVars, endVars, screenshot_b64,
                   sessionAttempts>>

\* a classification loop without the try/except around one inspection
ClassifyAborts ==
    /\ pc = "classify"
    /\ idx <= nbuttons
    /\ \E t \in RawTexts \cup {"raise"}, c \in ClassAttrs \cup {"raise"} :
        /\ seen' = [btn |-> idx, text |-> t, class |-> c]
        /\ LET norm    == Norm(Lower(GetElementTextViaJs(t)))
               classes == Lower(OrNone(c, ""))
           IN  IF c = "raise"
               THEN /\ Raise("get_attribute failed")
                    /\ UNCHANGED <<logs, boostable>>
               ELSE IF IsBoostable(classes, norm)
               THEN \E r1 \in LookupResults, r2 \in LookupResults,
                       r3 \in LookupResults, r4 \in LookupResults :
                       LET address == FindAddressForButton(r1, r2, r3, r4)
                       IN  /\ boostable' = Append(boostable,
                                  [address |-> address, btn |-> idx, text |-> norm])
                           /\ logs' = Append(logs, L("[FOUND]", ToString(idx)))
                           /\ UNCHANGED <<pc, exc>>
               ELSE /\ logs' = Append(logs, L("[SKIP]", ToString(idx)))
                    /\ boostable' = boostable
                    /\ UNCHANGED <<pc, exc>>
    /\ idx' = idx + 1
    /\ UNCHANGED <<sideVars, num_buttons, chrome_bin, chromedriver_bin, driver, step,
                   scrollVars, pollVars, nbuttons, clickVars, endVars,
                   screenshot_b64, sessionAttempts>>

\* lines 297-311: inspect button idx.  t is what the text script does, c what
\* get_attribute("class") does, r1..r4 what the address lookups do.
Classify ==
    /\ pc = "classify"
    /\ idx <= nbuttons
    /\ \E t \in RawTexts \cup {"raise"}, c \in ClassAttrs \cup {"raise"} :
        /\ seen' = [btn |-> idx, text |-> t, class |-> c]
        /\ LET norm    == Norm(Lower(GetElementTextViaJs(t)))
               classes == Lower(OrNone(c, ""))
           IN  IF c = "raise"
               THEN /\ logs' = Append(logs, L("[WARN] error inspecting", ToString(idx)))
                    /\ boostable' = boostable
               ELSE IF IsBoostable(classes, norm)
               THEN \E r1 \in LookupResults, r2 \in LookupResults,
                       r3 \in LookupResults, r4 \in LookupResults :
                       LET address == FindAddressForButton(r1, r2, r3, r4)
                       IN  /\ boostable' = Append(boostable,
                                  [address |-> address, btn |-> idx, text |-> norm])
                           /\ logs' = Append(logs, L("[FOUND]", ToString(idx)))
               ELSE /\ logs' = Append(logs, L("[SKIP]", ToString(idx)))
                    /\ boostable' = boostable
    /\ idx' = idx + 1
    /\ UNCHANGED <<sideVars, pc, num_buttons, chrome_bin, chromedriver_bin, driver, step,
                   scrollVars, pollVars, nbuttons, clickVars, endVars,
                   screenshot_b64, exc, sessionAttempts>>

\* lines 313-324: none boostable is fatal, after a screenshot; otherwise
\* set up the click loop.  The locals of the inspection are dead from here
\* on; the model forgets what was seen.
ClassifyDone ==
    /\ pc = "classify"
    /\ idx > nbuttons
    /\ IF NoneBoostable(boostable)
       THEN /\ \E shot_ok \in BOOLEAN :
                IF shot_ok
                THEN /\ screenshot_b64' = "png@filter"
                     /\ logs' = logs \o <<L("Total boostable detected", "0"),
                                          L("No boostable buttons after filtering - saved screenshot (base64)", "")>>
                ELSE /\ screenshot_b64' = screenshot_b64
                     /\ logs' = logs \o <<L("Total boostable detected", "0"),
                                          L("No boostable buttons - screenshot failed", "")>>
            /\ Raise("No boostable buttons found to click")
            /\ UNCHANGED <<to_click, i, clicked>>
       ELSE /\ logs' = Append(logs, L("Total boostable detected", ToString(Len(boostable))))
            /\ to_click' = ToClick(num_buttons, Len(boostable))
            /\ clicked' = 0
            /\ i' = 0
            /\ pc' = "click"
            /\ UNCHANGED <<screenshot_b64, exc>>
    /\ seen' = NotSeen
    /\ UNCHANGED <<sideVars, num_buttons, chrome_bin, chromedriver_bin, driver, step,
                   scrollVars, pollVars, nbuttons, idx, boostable,
                   clicked_addresses, attempts, endVars, sessionAttempts>>

\* what one click attempt can do
ClickOutcomes == {"ok", "scroll raises", "click raises"}

\* a click loop without the try/except around one attempt
ClickOneAborts ==
    /\ pc = "click"
    /\ i < to_click
    /\ \E outcome \in ClickOutcomes :
        LET b == Target(boostable, i)
        IN  /\ attempts' = Append(attempts, [btn |-> b.btn, outcome |-> outcome])
            /\ clicked_addresses' = AddressesAfter(clicked_addresses, b.address, outcome = "ok")
            /\ IF outcome = "ok"
               THEN /\ clicked' = clicked + 1
                    /\ logs' = Append(logs, L("Clicked boost for", OrNone(b.address, "<address not found>")))
                    /\ UNCHANGED <<pc, exc>>
               ELSE /\ clicked' = clicked
                    /\ logs' = logs
                    /\ Raise("click failed")
    /\ i' = i + 1
    /\ UNCHANGED <<sideVars, num_buttons, chrome_bin, chromedriver_bin, driver, step,
                   scrollVars, pollVars, classVars, to_click, endVars,
                   screenshot_b64, sessionAttempts>>

\* lines 325-337: one iteration of the click loop
ClickOne ==
    /\ pc = "click"
    /\ i < to_click
    /\ \E outcome \in ClickOutcomes :
        LET b == Target(boostable, i)
        IN  /\ attempts' = Append(attempts, [btn |-> b.btn, outcome |-> outcome])
            /\ clicked_addresses' = AddressesAfter(clicked_addresses, b.address, outcome = "ok")
            /\ IF outcome = "ok"
               THEN /\ clicked' = clicked + 1
                    /\ logs' = Append(logs, L("Clicked boost for", OrNone(b.address, "<address not found>")))
               ELSE /\ clicked' = clicked
                    /\ logs' = Append(logs, L("Error clicking boost", ToString(i + 1)))
    /\ i' = i + 1
    /\ UNCHANGED <<sideVars, pc, num_buttons, chrome_bin, chromedriver_bin, driver, step,
                   scrollVars, pollVars, classVars, to_click, endVars,
                   screenshot_b64, exc, sessionAttempts>>

\* a success path that takes a screenshot of the page before returning
ReturnOkWithShot ==
    /\ pc = "click"
    /\ ~(i < to_click)
    /\ screenshot_b64' = "png@success"
    /\ report' = BoostResponse(TRUE, clicked, clicked_addresses, logs, NoneVal,
                               screenshot_b64')
    /\ reports' = reports + 1
    /\ pc' = "finally"
    /\ UNCHANGED <<sideVars, num_buttons, chrome_bin, chromedriver_bin, driver, logs, step,
                   scrollVars, pollVars, classVars, clickVars, quitCalls, escaped,
                   exc, sessionAttempts>>

\* lines 339-346: the batch is over, return the success report
ReturnOk ==
    /\ pc = "click"
    /\ ~(i < to_click)
    /\ report' = BoostResponse(TRUE, clicked, clicked_addresses, logs, NoneVal,
                               screenshot_b64)
    /\ reports' = reports + 1
    /\ pc' = "finally"
    /\ UNCHANGED <<sideVars, num_buttons, chrome_bin, chromedriver_bin, driver, logs, step,
                   scrollVars, pollVars, classVars, clickVars, quitCalls, escaped,
                   screenshot_b64, exc, sessionAttempts>>

\* lines 348-366: the handler: log the failure, try a screenshot when a
\* driver exists, return the failure report
Except ==
    /\ pc = "except"
    /\ IF HasDriver(driver)
       THEN \E shot_ok \in BOOLEAN :
                IF shot_ok
                THEN /\ screenshot_b64' = "png@handler"
                     /\ logs' = Append(FailureLog(logs, exc),
                                       L("Captured error screenshot (base64)", ""))
                ELSE /\ screenshot_b64' = screenshot_b64
                     /\ logs' = FailureLog(logs, exc)
       ELSE /\ screenshot_b64' = screenshot_b64
            /\ logs' = FailureLog(logs, exc)
    /\ report' = BoostResponse(FALSE, 0, <<>>, logs', exc, screenshot_b64')
    /\ reports' = reports + 1
    /\ pc' = "finally"
    /\ UNCHANGED <<sideVars, num_buttons, chrome_bin, chromedriver_bin, driver, step,
                   scrollVars, pollVars, classVars, clickVars, quitCalls, escaped,
                   exc, sessionAttempts>>

\* a finally clause whose quit is not wrapped in try/except
FinallyUnguarded ==
    /\ pc = "finally"
    /\ IF HasDriver(driver)
       THEN /\ quitCalls' = quitCalls + 1
            /\ \E ok \in BOOLEAN :
                IF ok
                THEN /\ logs' = Append(logs, L("Driver.quit() called", ""))
                     /\ UNCHANGED <<report, reports, escaped>>
                ELSE /\ logs' = logs
                     /\ report' = NoReport
                     /\ reports' = 0
                     /\ escaped' = TRUE
       ELSE UNCHANGED <<quitCalls, logs, report, reports, escaped>>
    /\ pc' = "done"
    /\ UNCHANGED <<sideVars, num_buttons, chrome_bin, chromedriver_bin, driver, step,
                   scrollVars, pollVars, classVars, clickVars,
                   screenshot_b64, exc, sessionAttempts>>

\* a release placed at the end of the try body instead of in finally
FinallyOnSuccessOnly ==
    /\ pc = "finally"
    /\ IF HasDriver(driver) /\ report.success
       THEN /\ quitCalls' = quitCalls + 1
            /\ \E ok \in BOOLEAN :
                logs' = IF ok THEN Append(logs, L("Driver.quit() called", "")) ELSE logs
       ELSE UNCHANGED <<quitCalls, logs>>
    /\ pc' = "done"
    /\ UNCHANGED <<sideVars, num_buttons, chrome_bin, chromedriver_bin, driver, step,
                   scrollVars, pollVars, classVars, clickVars, report, reports,
                   escaped, screenshot_b64, exc, sessionAttempts>>

\* lines 367-373: release the session if there is one; a failing quit is
\* swallowed, and the pending return then completes
Finally ==
    /\ pc = "finally"
    /\ IF HasDriver(driver)
       THEN /\ quitCalls' = quitCalls + 1
            /\ \E ok \in BOOLEAN :
                logs' = IF ok THEN Append(logs, L("Driver.quit() called", "")) ELSE logs
       ELSE UNCHANGED <<quitCalls, logs>>
    /\ pc' = "done"
    /\ UNCHANGED <<sideVars, num_buttons, chrome_bin, chromedriver_bin, driver, step,
                   scrollVars, pollVars, classVars, clickVars, report, reports,
                   escaped, screenshot_b64, exc, sessionAttempts>>

Next ==
    \/ Start
    \/ CreateDriver
    \/ LoginStep
    \/ Navigate
    \/ ScrollIter
    \/ ScrollCap
    \/ ScrollDone
    \/ PollIter
    \/ PollTimeout
    \/ PollResult
    \/ Collect
    \/ Classify
    \/ ClassifyDone
    \/ ClickOne
    \/ ReturnOk
    \/ Except
    \/ Finally

Spec == Init /\ [][Next]_vars

\* the worker is one sequential flow run to completion by its executor thread
FairSpec == Spec /\ WF_vars(Next)

(***************************************************************************)
(* Address resolution on its own: the worker stands at the first button of *)
(* a one-button page, the button is eligible, and the page has already     *)
(* decided what each of the four lookups of the fallback chain will do.    *)
(* The run then goes on through the batch to its report.                   *)
(***************************************************************************)
AddressInit ==
    /\ pc = "resolve"
    /\ num_buttons \in 1..MaxRequested
    /\ lookups \in [1..4 -> LookupResults]
    /\ chrome_bin = NoneVal
    /\ chromedriver_bin = "/usr/bin/chromedriver"
    /\ driver = "session"
    /\ logs = <<>>
    /\ step = Len(LoginSteps) + 1
    /\ loops = 0
    /\ last_height = 0
    /\ new_height = 0
    /\ elapsed = 0
    /\ found_context = "main"
    /\ found_count = 1
    /\ nbuttons = 1
    /\ idx = 1
    /\ boostable = <<>>
    /\ seen = NotSeen
    /\ to_click = 0
    /\ i = 0
    /\ clicked = 0
    /\ clicked_addresses = <<>>
    /\ screenshot_b64 = NoneVal
    /\ exc = NoneVal
    /\ report = NoReport
    /\ sessionAttempts = 1
    /\ quitCalls = 0
    /\ attempts = <<>>
    /\ reports = 0
    /\ escaped = FALSE
    /\ runs = <<>>
    /\ created = {}
    /\ drove = {}
    /\ released = {}

\* lines 303-306: the button is eligible; resolve its address and record it
Resolve ==
    /\ pc = "resolve"
    /\ LET address == FindAddressForButton(lookups[1], lookups[2], lookups[3], lookups[4])
       IN  /\ boostable' = Append(boostable, [address |-> address, btn |-> idx, text |-> "boost"])
           /\ logs' = Append(logs, L("[FOUND]", ToString(idx)))
    /\ idx' = idx + 1
    /\ pc' = "classify"
    /\ UNCHANGED <<sideVars, num_buttons, chrome_bin, chromedriver_bin, driver, step,
                   scrollVars, pollVars, nbuttons, seen, clickVars, endVars,
                   screenshot_b64, exc, sessionAttempts>>

AddressNext ==
    \/ Resolve
    \/ ClassifyDone
    \/ ClickOne
    \/ ReturnOk
    \/ Finally

AddressSpec == AddressInit /\ [][AddressNext]_vars


(***************************************************************************)
(* Concurrent runs.  boost_endpoint hands every request to the executor,   *)
(* so several runs of selenium_boost_worker execute at once and their      *)
(* steps interleave.  Each run is cut down to what it shares with the      *)
(* world: the sessions it creates, drives and quits.  Its locals (driver,  *)
(* logs) live in its own entry of runs; page holds what the environment    *)
(* answered to this run, step by step.                                     *)
(***************************************************************************)
Runs == 1..NumRuns

\* the browser sessions the machine can start, by handle
Sessions == {"session" \o ToString(k) : k \in 1..NumRuns}

workerVars == <<pc, num_buttons, chrome_bin, chromedriver_bin, driver, logs, step,
                scrollVars, pollVars, classVars, clickVars, endVars,
                screenshot_b64, exc, sessionAttempts, lookups>>

\* a driver object handed out before (a cached, shared driver)
AnySession(c) == Sessions

\* webdriver.Chrome(...) starts a new browser: a session nobody holds
FreshSessions(c) == Sessions \ c

\* driver.quit() has been called on session s
SessionQuit(s) == \E r \in Runs : <<r, s>> \in released

\* a driver call on a session that has been quit raises
Answer(s, ans) == IF SessionQuit(s) THEN "raises" ELSE ans

\* a run on entry: no driver, empty log, nothing returned
NewRun == [pc |-> "start", driver |-> NoneVal, page |-> <<>>, logs |-> <<>>,
           report |-> [success |-> FALSE, debug_logs |-> <<>>]]

ConcInit ==
    /\ pc = "start"
    /\ num_buttons = 1
    /\ Locals
    /\ lookups = <<>>
    /\ runs = [r \in Runs |-> NewRun]
    /\ created = {}
    /\ drove = {}
    /\ released = {}

ConcRun(r, f) == runs' = [runs EXCEPT ![r] = f]

\* lines 189-198: the run locates its binaries and requires chromedriver
ConcStart(r) ==
    /\ runs[r].pc = "start"
    /\ \E found \in BOOLEAN :
        ConcRun(r, [runs[r] EXCEPT
            !.pc   = IF found THEN "create" ELSE "except",
            !.page = Append(@, IF found THEN "chromedriver found" ELSE "chromedriver missing"),
            !.logs = Append(@, "Detected binaries")])
    /\ UNCHANGED <<workerVars, created, drove, released>>

\* lines 200-215: the run creates its session and keeps it in its local driver
ConcCreate(r) ==
    /\ runs[r].pc = "create"
    /\ \/ \E s \in FreshSessions(created) :
            /\ created' = created \cup {s}
            /\ ConcRun(r, [runs[r] EXCEPT
                   !.pc = "drive", !.driver = s,
                   !.page = Append(@, "session"),
                   !.logs = Append(@, "Started Chrome webdriver")])
       \/ /\ created' = created
          /\ ConcRun(r, [runs[r] EXCEPT
                 !.pc = "except", !.page = Append(@, "no session")])
    /\ UNCHANGED <<workerVars, drove, released>>

\* lines 217-346: login, scrolling, polling, classification and the batch,
\* all of them calls on the run's local driver; the run returns its report
ConcDrive(r) ==
    /\ runs[r].pc = "drive"
    /\ drove' = drove \cup {<<r, runs[r].driver>>}
    /\ \E ans \in {"ok", "raises"} :
        IF Answer(runs[r].driver, ans) = "ok"
        THEN ConcRun(r, [runs[r] EXCEPT
                 !.pc = "finally",
                 !.page = Append(@, ans),
                 !.logs = Append(@, "Clicked boost for"),
                 !.report = [success |-> TRUE,
                             debug_logs |-> Append(runs[r].logs, "Clicked boost for")]])
        ELSE ConcRun(r, [runs[r] EXCEPT
                 !.pc = "except", !.page = Append(@, ans)])
    /\ UNCHANGED <<workerVars, created, released>>

\* lines 348-366: the handler: log, screenshot through the local driver when
\* there is one, return the failure report
ConcExcept(r) ==
    /\ runs[r].pc = "except"
    /\ drove' = IF HasDriver(runs[r].driver)
                THEN drove \cup {<<r, runs[r].driver>>} ELSE drove
    /\ ConcRun(r, [runs[r] EXCEPT
           !.pc = "finally",
           !.logs = Append(@, "Unhandled exception"),
           !.report = [success |-> FALSE,
                       debug_logs |-> Append(runs[r].logs, "Unhandled exception")]])
    /\ UNCHANGED <<workerVars, created, released>>

\* lines 367-373: the run quits its local driver if it has one
ConcFinally(r) ==
    /\ runs[r].pc = "finally"
    /\ released' = IF HasDriver(runs[r].driver)
                   THEN released \cup {<<r, runs[r].driver>>} ELSE released
    /\ ConcRun(r, [runs[r] EXCEPT !.pc = "done"])
    /\ UNCHANGED <<workerVars, created, drove>>

ConcNext ==
    \E r \in Runs :
        \/ ConcStart(r)
        \/ ConcCreate(r)
        \/ ConcDrive(r)
        \/ ConcExcept(r)
        \/ ConcFinally(r)

ConcSpec == ConcInit /\ [][ConcNext]_vars


(***************************************************************************)
(* Properties.                                                             *)
(***************************************************************************)
Returned == pc \in {"finally", "done"}

Failed(k) == attempts[k].outcome # "ok"

NumFailed == Cardinality({k \in DOMAIN attempts : Failed(k)})

ErrorEntries(lg) == Cardinality({k \in DOMAIN lg : lg[k].tag = "Error clicking boost"})

\* the association resolved at classification for button b
AddressOf(b) == (CHOOSE e \in {boostable[k] : k \in DOMAIN boostable} : e.btn = b).address

RECURSIVE OkAddresses(_)
\* associations of the first n attempts that succeeded, in attempt order
OkAddresses(n) ==
    IF n = 0 THEN <<>>
    ELSE IF Failed(n) THEN OkAddresses(n - 1)
    ELSE Append(OkAddresses(n - 1), AddressOf(attempts[n].btn))

NoCardsMessage == "No listing cards or buttons found after JS polling"

\* C1: a run that acquired a session calls driver.quit exactly once by the
\* time it ends, on every exit path, never twice, and a run without a session
\* never calls it.
C1_ReleasedExactlyOnce ==
    /\ quitCalls <= 1
    /\ (driver = NoneVal => quitCalls = 0)
    /\ (pc = "done" => quitCalls = (IF driver # NoneVal THEN 1 ELSE 0))

\* the run failed at the very first login step and has released its session
C1_Witness ==
    /\ pc = "done"
    /\ driver # NoneVal
    /\ exc = LoginError[1]
    /\ step = 1
    /\ quitCalls = 1

\* C2: once a click has been attempted the run can no longer fail: failed
\* attempts leave the batch running, and the report has success, no error,
\* clicked_count = attempts that did not fail, one error entry per failure.
C2_FailureIsolation ==
    attempts # <<>> =>
        /\ pc \in {"click", "finally", "done"}
        /\ exc = NoneVal
        /\ ErrorEntries(logs) = NumFailed
        /\ clicked = Len(attempts) - NumFailed
        /\ Returned =>
            /\ Len(attempts) = to_click
            /\ report.success
            /\ report.error = NoneVal
            /\ report.clicked_count = Len(attempts) - NumFailed
            /\ ErrorEntries(report.debug_logs) = NumFailed

\* three eligible, three requested, the second attempt throws
C2_Witness ==
    /\ pc = "done"
    /\ Len(boostable) = 3
    /\ num_buttons = 3
    /\ Len(attempts) = 3
    /\ attempts[1].outcome = "ok"
    /\ attempts[2].outcome = "click raises"
    /\ attempts[3].outcome = "ok"
    /\ report.success
    /\ report.clicked_count = 2

\* C3: in every report clicked_count is the length of clicked_addresses.
C3_CountMatchesAddresses ==
    reports >= 1 => report.clicked_count = Len(report.clicked_addresses)

\* a success report of two clicks, one of them without an address, after a
\* failed attempt
C3_Witness ==
    /\ pc = "done"
    /\ report.success
    /\ report.clicked_count = 2
    /\ NumFailed = 1
    /\ \E k \in DOMAIN report.clicked_addresses : report.clicked_addresses[k] = NoneVal

\* C4: the running counter and the reported clicked_count never exceed
\* min(num_buttons, number of eligible buttons).
C4_CountBounded ==
    /\ clicked <= Min(num_buttons, Len(boostable))
    /\ reports >= 1 => report.clicked_count <= Min(num_buttons, Len(boostable))

\* more eligible buttons than requested, and every requested click succeeded
C4_Witness ==
    /\ pc = "done"
    /\ Len(boostable) > num_buttons
    /\ report.clicked_count = num_buttons

\* C5: the attempts are the first min(num_buttons, |Eligible|) eligible
\* buttons, in document order, one attempt each, whatever fails.
C5_FirstInOrder ==
    /\ \A k \in DOMAIN boostable : \A m \in DOMAIN boostable :
           k < m => boostable[k].btn < boostable[m].btn
    /\ Len(attempts) <= Min(num_buttons, Len(boostable))
    /\ \A k \in DOMAIN attempts : attempts[k].btn = boostable[k].btn
    /\ pc = "click" => Len(attempts) = i
    /\ (Returned /\ report.success) =>
           Len(attempts) = Min(num_buttons, Len(boostable))

\* three eligible, two requested, the first attempt fails: two attempts only
C5_Witness ==
    /\ pc = "done"
    /\ Len(boostable) = 3
    /\ num_buttons = 2
    /\ Len(attempts) = 2
    /\ Failed(1)
    /\ report.success

\* C6: the addresses of a success report are the associations of the
\* buttons whose click succeeded, in attempt order, nothing for a failure.
C6_AddressesOfSuccesses ==
    /\ clicked_addresses = OkAddresses(Len(attempts))
    /\ (Returned /\ report.success) =>
           report.clicked_addresses = OkAddresses(Len(attempts))

\* scenario A: three eligible with addresses, two requested, both succeed
C6_Witness ==
    /\ pc = "done"
    /\ Len(boostable) = 3
    /\ num_buttons = 2
    /\ NumFailed = 0
    /\ boostable[1].address \in Addrs
    /\ boostable[2].address \in Addrs
    /\ boostable[1].address # boostable[2].address
    /\ report.success
    /\ report.clicked_count = 2
    /\ report.clicked_addresses = <<boostable[1].address, boostable[2].address>>


\* the polling loop ran out of time without ever finding anything
TimedOut == found_context = NoneVal /\ elapsed >= DEFAULT_JS_POLL_TIMEOUT

HasEntry(lg, tag) == \E k \in DOMAIN lg : lg[k].tag = tag

PollShotSaved(lg) == HasEntry(lg, "No cards/buttons found - saved screenshot (base64)")

HandlerShotSaved(lg) == HasEntry(lg, "Captured error screenshot (base64)")

\* C7 as stated: after a poll timeout with no match the run is fatal, no
\* click was attempted, and the report carries an image whenever a session
\* was live.
C7_Original ==
    (pc = "done" /\ TimedOut) =>
        /\ ~report.success
        /\ report.error # NoneVal
        /\ attempts = <<>>
        /\ (driver # NoneVal => report.screenshot_base64 # NoneVal)

\* C7, amended: after a poll timeout with no match the run is fatal with the
\* polling message, no click was attempted, and the report carries the image
\* of the handler's capture if that succeeded, else the image of the capture
\* at the timeout if that succeeded, else none.
C7_PollTimeoutFatal ==
    (pc = "done" /\ TimedOut) =>
        /\ ~report.success
        /\ report.error = NoCardsMessage
        /\ attempts = <<>>
        /\ driver # NoneVal
        /\ report.screenshot_base64 =
              (IF HandlerShotSaved(report.debug_logs) THEN "png@handler"
               ELSE IF PollShotSaved(report.debug_logs) THEN "png@poll"
               ELSE NoneVal)

\* a timed-out run whose report carries the image taken at the timeout,
\* the handler's own capture having failed
C7_Witness ==
    /\ pc = "done"
    /\ TimedOut
    /\ ~report.success
    /\ report.screenshot_base64 = "png@poll"

FatalMessages ==
    {"Chromedriver binary not found", "session not created", NoCardsMessage,
     "No boostable buttons found to click", "navigation failed", "script failed",
     "find_elements failed"} \cup {LoginError[k] : k \in DOMAIN LoginError}

\* the report of a failed run: success=False, error = the message
C8_Report ==
    /\ pc = "except" => exc \in FatalMessages
    /\ Returned =>
        /\ report.success <=> exc = NoneVal
        /\ ~report.success => report.error = exc

\* what the handler does to the log and the report
C8_Handler ==
    pc = "except" =>
        /\ Len(logs') >= Len(logs) + 2
        /\ SubSeq(logs', 1, Len(logs)) = logs
        /\ logs'[Len(logs) + 1] = L("Unhandled exception", exc)
        /\ logs'[Len(logs) + 2] = L("traceback", exc)
        /\ \A k \in (Len(logs) + 3)..Len(logs') :
               logs'[k] = L("Captured error screenshot (base64)", "")
        /\ reports' = reports + 1
        /\ ~report'.success
        /\ report'.error = exc
        /\ report'.debug_logs = logs'

\* C8: every fatal kind ends in a report with success=False and error = the
\* failure message, built after the message and the traceback were appended
\* to the log behind everything logged before.
C8_FatalReported == [](C8_Report) /\ [][C8_Handler]_vars

\* a run without eligible buttons has reported its failure
C8_Witness ==
    /\ pc = "done"
    /\ exc = "No boostable buttons found to click"
    /\ ~report.success
    /\ report.error = exc
    /\ HasEntry(report.debug_logs, "traceback")

\* C9 as stated: chrome or chromedriver unresolved => fatal, and no session
\* was attempted, started, photographed or released.
C9_Original ==
    (pc = "done" /\ (chrome_bin = NoneVal \/ chromedriver_bin = NoneVal)) =>
        /\ ~report.success
        /\ report.error # NoneVal
        /\ sessionAttempts = 0
        /\ driver = NoneVal
        /\ report.screenshot_base64 = NoneVal
        /\ quitCalls = 0

\* C9, amended: chromedriver unresolved => fatal with the precondition
\* message, no session attempted, no image, no release; the chrome binary is
\* optional: once chromedriver is resolved the session is attempted, with or
\* without it.
C9_DriverBinaryRequired ==
    /\ (pc # "start" /\ chromedriver_bin = NoneVal) =>
        /\ sessionAttempts = 0
        /\ driver = NoneVal
        /\ quitCalls = 0
        /\ screenshot_b64 = NoneVal
        /\ exc = "Chromedriver binary not found"
        /\ Returned =>
            /\ ~report.success
            /\ report.error = exc
            /\ report.screenshot_base64 = NoneVal
    /\ (pc \notin {"start", "create_driver"} /\ chromedriver_bin # NoneVal) =>
        sessionAttempts = 1

\* chrome found, chromedriver not: the run ended without a session
C9_Witness ==
    /\ pc = "done"
    /\ chrome_bin # NoneVal
    /\ chromedriver_bin = NoneVal
    /\ ~report.success
    /\ sessionAttempts = 0

\* C10: every run ends, with exactly one report and no exception leaving
\* the worker; the scroll loop never passes its cap and the polling loop
\* never starts an iteration after the timeout.
C10_Terminates ==
    /\ <>[](pc = "done" /\ reports = 1 /\ ~escaped)
    /\ [](loops <= DEFAULT_MAX_SCROLL_LOOPS)
    /\ [][pc = "poll" /\ elapsed >= DEFAULT_JS_POLL_TIMEOUT => elapsed' = elapsed]_vars

\* a run has ended with its report although driver.quit() raised
C10_Witness ==
    /\ pc = "done"
    /\ reports = 1
    /\ quitCalls = 1
    /\ logs[Len(logs)].tag # "Driver.quit() called"


\* a scroll iteration that ran to its end: scrolled and read the new height
ScrollIterated == pc = "scroll" /\ loops' = loops + 1 /\ pc' # "except"

\* C11: the scroll loop never runs more than DEFAULT_MAX_SCROLL_LOOPS
\* iterations: with the counter at the cap the only step is the exit, however
\* the height behaves, and no clock is involved.
C11_ScrollCapped ==
    /\ [](loops <= DEFAULT_MAX_SCROLL_LOOPS)
    /\ [][(pc = "scroll" /\ loops >= DEFAULT_MAX_SCROLL_LOOPS) =>
              (pc' = "scroll_done" /\ loops' = loops)]_vars
    /\ [][pc = "scroll" => elapsed' = elapsed]_vars

\* the height changed in each of the 60 iterations and the loop is at its cap
C11_Witness ==
    /\ pc = "scroll"
    /\ loops = DEFAULT_MAX_SCROLL_LOOPS

\* C19 as stated: an iteration after which the height is not greater than
\* before ends the loop.
C19_Original ==
    [][(ScrollIterated /\ new_height' <= last_height) => pc' = "scroll_done"]_vars

\* C19, amended: an iteration ends the loop exactly when the height it reads
\* equals the height before it (a smaller height keeps the loop going); the
\* only other exit is the iteration cap.
C19_StopsWhenUnchanged ==
    /\ [][ScrollIterated => (pc' = "scroll_done" <=> new_height' = last_height)]_vars
    /\ [][(pc = "scroll" /\ pc' = "scroll_done") =>
              \/ (loops' = loops + 1 /\ new_height' = last_height)
              \/ (loops = DEFAULT_MAX_SCROLL_LOOPS /\ loops' = loops)]_vars

\* the loop goes on after an iteration in which the height shrank to 0
C19_Witness ==
    /\ pc = "scroll"
    /\ loops = 1
    /\ new_height = 0
    /\ last_height = 0


IsLoginEntry(e) == \E k \in DOMAIN LoginLog : e.tag = LoginLog[k]

\* the login steps that succeeded so far, as logged
LoginEntries == SelectSeq(logs, IsLoginEntry)

LoginFailed == \E k \in DOMAIN LoginError : exc = LoginError[k]

AfterLogin == pc \in {"navigate", "scroll", "scroll_done", "poll", "poll_result",
                      "collect", "classify", "click"}

\* C15: the login steps succeed in the fixed order, once each; step k is
\* reached only after steps 1..k-1 succeeded; a failed step is not retried
\* and ends the flow: nothing is navigated, scrolled, polled or clicked after.
C15_LoginOrder ==
    /\ Len(LoginEntries) <= Len(LoginSteps)
    /\ \A k \in DOMAIN LoginEntries : LoginEntries[k] = L(LoginLog[k], "")
    /\ pc = "login" => Len(LoginEntries) = step - 1
    /\ (AfterLogin \/ HasEntry(logs, "Navigated to") \/ loops > 0
            \/ HasEntry(logs, "[JS POLL]") \/ attempts # <<>>) =>
           (Len(LoginEntries) = Len(LoginSteps) /\ ~LoginFailed)
    /\ LoginFailed =>
        /\ pc \in {"except", "finally", "done"}
        /\ exc = LoginError[step]
        /\ Len(LoginEntries) = step - 1

\* the fifth step (password field) failed after four steps succeeded, and
\* the run ended there
C15_Witness ==
    /\ pc = "done"
    /\ exc = LoginError[5]
    /\ Len(LoginEntries) = 4
    /\ ~HasEntry(logs, "Navigated to")
    /\ attempts = <<>>


\* C16: a failure report means no click attempt was ever made, and it
\* reports no clicks and no addresses; once an attempt has been made the
\* report is a success report.
C16_FatalOnlyBeforeBatch ==
    /\ (reports >= 1 /\ ~report.success) =>
        /\ attempts = <<>>
        /\ clicked_addresses = <<>>
        /\ report.clicked_count = 0
        /\ report.clicked_addresses = <<>>
    /\ (reports >= 1 /\ attempts # <<>>) => report.success

\* the run failed while collecting the buttons, before any click
C16_Witness ==
    /\ pc = "done"
    /\ exc = "find_elements failed"
    /\ ~report.success
    /\ report.clicked_count = 0
    /\ attempts = <<>>

\* C18: a success report never carries a diagnostic image.
C18_NoImageOnSuccess ==
    (reports >= 1 /\ report.success) =>
        /\ report.screenshot_base64 = NoneVal
        /\ screenshot_b64 = NoneVal

\* a success report of a batch in which every attempt failed
C18_Witness ==
    /\ pc = "done"
    /\ report.success
    /\ Len(attempts) >= 2
    /\ NumFailed = Len(attempts)
    /\ report.screenshot_base64 = NoneVal


\* classification ran to its end and found no eligible button
ClassifiedNone == HasEntry(logs, "Total boostable detected") /\ Len(boostable) = 0

FilterShotSaved(lg) ==
    HasEntry(lg, "No boostable buttons after filtering - saved screenshot (base64)")

\* C17 as stated: no eligible button after classification => a snapshot is
\* captured, no click is attempted, the report is a failure with error set.
C17_Original ==
    (pc = "done" /\ ClassifiedNone) =>
        /\ ~report.success
        /\ report.error # NoneVal
        /\ attempts = <<>>
        /\ report.screenshot_base64 # NoneVal

\* C17, amended: no eligible button after classification => the run is
\* fatal with the no-boostable message and no click is attempted; a snapshot
\* is attempted twice and the report carries the handler's image if that
\* capture succeeded, else the one taken after filtering if that succeeded,
\* else none.
C17_NoEligibleFatal ==
    (pc = "done" /\ ClassifiedNone) =>
        /\ ~report.success
        /\ report.error = "No boostable buttons found to click"
        /\ attempts = <<>>
        /\ report.screenshot_base64 =
              (IF HandlerShotSaved(report.debug_logs) THEN "png@handler"
               ELSE IF FilterShotSaved(report.debug_logs) THEN "png@filter"
               ELSE NoneVal)

\* the poll found cards or labels only: no button was collected, and the
\* failure report carries the image taken after filtering
C17_Witness ==
    /\ pc = "done"
    /\ ClassifiedNone
    /\ found_context = "main"
    /\ nbuttons = 0
    /\ ~report.success
    /\ report.screenshot_base64 = "png@filter"


InEligible(b) == \E k \in DOMAIN boostable : boostable[k].btn = b

\* the button inspected last, while the classification loop runs
Inspecting == pc = "classify" /\ seen.btn > 0

\* the normalized text of the button inspected last ("" when the script failed)
SeenNorm == Norm(Lower(GetElementTextViaJs(seen.text)))

\* its class string, when get_attribute returned
SeenClasses == Lower(OrNone(seen.class, ""))

\* C12: a button whose text and class were read is in Eligible iff its
\* normalized text contains "boost" and neither its class string contains
\* "usage-boost-inprogress" nor its text "progress" or "inprogress"; with the
\* marker in the class it is never in Eligible, whatever the text.
C12_EligibleIff ==
    Inspecting =>
        /\ seen.class # "raise" =>
             (InEligible(seen.btn) <=>
                 /\ Contains(SeenNorm, "boost")
                 /\ ~Contains(SeenClasses, "usage-boost-inprogress")
                 /\ ~Contains(SeenNorm, "progress")
                 /\ ~Contains(SeenNorm, "inprogress"))
        /\ seen.class \in {"cmn--btn usage-boost-button usage-boost-inprogress",
                           "cmn--btn Usage-Boost-InProgress"} =>
             ~InEligible(seen.btn)

\* a button that says BOOST and carries the marker, in mixed case, in its
\* class has been inspected and left out
C12_Witness ==
    /\ Inspecting
    /\ seen.text = "BOOST"
    /\ seen.class = "cmn--btn Usage-Boost-InProgress"
    /\ ~InEligible(seen.btn)
    /\ logs[Len(logs)] = L("[SKIP]", ToString(seen.btn))

IsInspectEntry(e) == e.tag \in {"[FOUND]", "[SKIP]", "[WARN] error inspecting"}

\* the entries the classification loop logged, one per inspected button
InspectEntries == SelectSeq(logs, IsInspectEntry)

\* the buttons are inspected in document order, one entry each
InspectedInOrder ==
    /\ \A k \in DOMAIN InspectEntries : InspectEntries[k].arg = ToString(k)
    /\ pc = "classify" => Len(InspectEntries) = idx - 1

\* a failed inspection never ends the run by itself
FailureNotFatal ==
    (HasEntry(logs, "Total boostable detected") /\ Len(boostable) > 0) => exc = NoneVal

\* C20 as stated: a failure reading the text or the class of a button leaves
\* the button out with a [WARN] entry, and the loop goes on.
C20_Original ==
    /\ InspectedInOrder
    /\ FailureNotFatal
    /\ (seen.btn > 0 /\ (seen.text = "raise" \/ seen.class = "raise")) =>
        /\ pc = "classify"
        /\ exc = NoneVal
        /\ ~InEligible(seen.btn)
        /\ logs[Len(logs)] = L("[WARN] error inspecting", ToString(seen.btn))

\* C20, amended: a failure reading the class leaves the button out with a
\* [WARN] entry; a failure reading the text is taken as an empty text, and
\* the button is left out with a [SKIP] entry and no warning (unless reading
\* its class fails too); either way the loop goes on in document order and
\* the run is fatal only if Eligible ends up empty.
C20_InspectionIsolated ==
    /\ InspectedInOrder
    /\ FailureNotFatal
    /\ (seen.btn > 0 /\ seen.class = "raise") =>
        /\ pc = "classify"
        /\ exc = NoneVal
        /\ ~InEligible(seen.btn)
        /\ logs[Len(logs)] = L("[WARN] error inspecting", ToString(seen.btn))
    /\ (seen.btn > 0 /\ seen.text = "raise" /\ seen.class # "raise") =>
        /\ pc = "classify"
        /\ exc = NoneVal
        /\ ~InEligible(seen.btn)
        /\ logs[Len(logs)] = L("[SKIP]", ToString(seen.btn))

\* reading the class of the first button failed, the second button was
\* found eligible, and the run ended with a success report
C20_Witness ==
    /\ pc = "done"
    /\ report.success
    /\ HasEntry(logs, "[WARN] error inspecting")
    /\ InspectEntries[1] = L("[WARN] error inspecting", "1")
    /\ InspectEntries[2] = L("[FOUND]", "2")
    /\ boostable[1].btn = 2

\* the first lookup in chain order that yields a non-empty address, NoneVal
\* when none does
FirstNonEmpty ==
    LET hits == {k \in 1..4 : lookups[k] \in Addrs}
    IN  IF hits = {} THEN NoneVal
        ELSE lookups[CHOOSE k \in hits : \A j \in hits : k <= j]

\* C13: address resolution never raises; whatever the four lookups of the
\* chain do (raise, yield nothing, yield an address) the association is the
\* first non-empty address in chain order, or absent; the button stays in
\* Eligible with that association and the run is not made fatal: it goes on
\* to the batch and reports success, with the association among the
\* addresses when the click succeeded.
C13_AddressBestEffort ==
    /\ pc # "except"
    /\ exc = NoneVal
    /\ pc # "resolve" =>
        /\ Len(boostable) = 1
        /\ boostable[1].btn = 1
        /\ boostable[1].address = FirstNonEmpty
        /\ boostable[1].address \in Addrs \cup {NoneVal}
    /\ report # NoReport =>
        /\ report.success
        /\ report.clicked_addresses = IF clicked = 1 THEN <<FirstNonEmpty>> ELSE <<>>

\* the first two lookups raise, the third yields nothing, the fourth an
\* address, and the run has reported; and a run whose four lookups all
\* failed is possible too (C13_WitnessAbsent)
C13_Witness ==
    /\ pc = "done"
    /\ lookups[1] = "raise"
    /\ lookups[2] = "raise"
    /\ lookups[3] = ""
    /\ lookups[4] \in Addrs
    /\ report.clicked_addresses = <<lookups[4]>>

C13_WitnessAbsent ==
    /\ pc = "done"
    /\ \A k \in 1..4 : lookups[k] \in {"raise", ""}
    /\ report.success
    /\ report.clicked_addresses = <<NoneVal>>

\* what a run reports when it runs alone and the environment answers page
SoloReport(page) ==
    LET last == page[Len(page)]
        log  == CASE last = "chromedriver missing" -> <<"Detected binaries", "Unhandled exception">>
                  [] last = "no session" -> <<"Detected binaries", "Unhandled exception">>
                  [] last = "raises" -> <<"Detected binaries", "Started Chrome webdriver",
                                          "Unhandled exception">>
                  [] OTHER -> <<"Detected binaries", "Started Chrome webdriver",
                                "Clicked boost for">>
    IN  [success |-> last = "ok", debug_logs |-> log]

====
